---- MODULE Spec2Model ----
\* State-machine model of the cinema-ticket subscription benefit engine:
\* core/subscription.py (the Subscription entity), services/subscription_service.py
\* (the engine) and the wallet of core/user.py; and of the account services:
\* services/auth_service.py, services/user_service.py and the users store of
\* storage/json_storage.py.
\*
\* Seven specifications share the variables: Spec (the engine), SpecEntity (the
\* Subscription entity built and loaded), SpecWallet (the wallet and the user's
\* dictionary form), SpecUsers (registration, login, change of username and
\* password), SpecGateway (the payment gateway), SpecCalls (two callers of
\* apply_subscription_benefits interleaved, with saves that may fail) and
\* SpecRace (the same interleaving with every save succeeding).
\*
\* User names and passwords are sequences of characters, so that strip() and the
\* password policy are computed. The users file is missing, corrupt or a JSON
\* document; when it cannot be read the store is the default structure, which
\* the process keeps in memory and every caller shares.
\*
\* Money is counted in mils (1/1000 of a currency unit) so that amount * 0.2 and
\* amount * 0.5 are exact for amounts given in cents, as they are with Decimal.
\* Calendar dates are day numbers; a date string is a record [fmt, day] whose fmt
\* names the textual layout it is written in.
\*
\* An operation that raises is a step that records the exception in `last` and
\* leaves unchanged whatever the code had not yet written when it raised.
EXTENDS Integers, Sequences, FiniteSets, TLC

\* ---------------------------------------------------------------- bounds ----
\* last calendar day a stored record may mention
MaxDay == 1
\* last day the clock reaches
MaxToday == 2
\* largest wallet balance a deposit may reach, in currency units
MaxBalance == 3
\* longest transaction list the gateway is driven to
MaxTransactions == 3
\* most cashback deposits the wallets take while saves may fail
MaxCashbacks == 5

Users == {"u1", "u2"}
\* transaction amounts, in mils (-1.00, 0.00, 1.00)
Amounts == {-1000, 0, 1000}

\* Python's None
None == [none |-> TRUE]
NoExc == "none"

\* ------------------------------------------------------- core/enums.py ----
SubscriptionType == {"bronze", "silver", "gold"}

\* Arguments a caller may pass as subscription_type: enum members, or plain
\* strings (which are not instances of the enum, whatever they spell).
TierArgs == [kind : {"enum"}, value : SubscriptionType]
            \cup [kind : {"str"}, value : {"platinum", "gold"}]

\* faulty variant: the check also lets through a plain string that spells a member
IsSubscriptionType_BySpelling(value) ==
    value.kind = "enum" \/ value.value \in SubscriptionType

\* isinstance(value, SubscriptionType)
IsSubscriptionType(value) == value.kind = "enum"

\* faulty variant: any wire value is taken for a member
EnumOfValue_AnyValue(raw) ==
    [exc |-> NoExc, member |-> [kind |-> "enum", value |-> raw]]

\* SubscriptionType(raw): the member for a wire value, ValueError otherwise
EnumOfValue(raw) ==
    IF raw \in SubscriptionType
    THEN [exc |-> NoExc, member |-> [kind |-> "enum", value |-> raw]]
    ELSE [exc |-> "ValueError", member |-> None]

\* ---------------------------------------------------------------- dates ----
DateFormats == <<"%Y-%m-%d", "%d/%m/%Y", "%d.%m.%Y">>

DateStr(fmt, day) == [fmt |-> fmt, day |-> day]

\* strftime("%Y-%m-%d")
Iso(day) == DateStr("%Y-%m-%d", day)

\* The start_date / end_date setters: try the three formats in turn and keep
\* the date normalised to %Y-%m-%d. strptime(None, fmt) raises TypeError, which
\* the `except ValueError` clause does not catch.
ParseDate(value) ==
    IF value = None THEN [exc |-> "TypeError", date |-> None]
    ELSE IF \E i \in 1..Len(DateFormats) : DateFormats[i] = value.fmt
         THEN [exc |-> NoExc, date |-> Iso(value.day)]
         ELSE [exc |-> "InvalidDateError", date |-> None]

\* ------------------------------------------------ core/subscription.py ----
InitialCredits == 3
InitialDrinks == 1

\* Subscription.__init__: returns [exc, sub]
SubscriptionInit(user_id, subscription_type, start_date, end_date) ==
    LET s == ParseDate(start_date)
        e == ParseDate(end_date)
    IN  IF ~IsSubscriptionType(subscription_type)
        THEN [exc |-> "InvalidSubscriptionTypeError", sub |-> None]
        ELSE IF s.exc # NoExc THEN [exc |-> s.exc, sub |-> None]
        ELSE IF e.exc # NoExc THEN [exc |-> e.exc, sub |-> None]
        ELSE IF e.date.day < s.date.day
        THEN [exc |-> "InvalidDateError", sub |-> None]
        ELSE [exc |-> NoExc,
              sub |-> [user_id |-> user_id,
                       subscription_type |-> subscription_type.value,
                       start_date |-> s.date,
                       end_date |-> e.date,
                       remaining_credits |->
                           IF subscription_type.value = "silver"
                           THEN InitialCredits ELSE 0,
                       apply_gold_drink_benefits |->
                           IF subscription_type.value = "gold"
                           THEN InitialDrinks ELSE 0]]

\* faulty variant: the last day of the window is left out
is_active_EndExclusive(sub, day) ==
    IF sub.subscription_type = "gold"
    THEN IF sub.end_date = None
         THEN FALSE
         ELSE sub.start_date.day <= day /\ day < sub.end_date.day
    ELSE IF sub.subscription_type = "silver"
    THEN sub.remaining_credits > 0
    ELSE FALSE

\* Subscription.is_active, evaluated on day `day`
is_active(sub, day) ==
    IF sub.subscription_type = "gold"
    THEN IF sub.end_date = None
         THEN FALSE
         ELSE sub.start_date.day <= day /\ day <= sub.end_date.day
    ELSE IF sub.subscription_type = "silver"
    THEN sub.remaining_credits > 0
    ELSE FALSE

\* Subscription.to_dict: the drink counter is not among the keys written
to_dict(sub) ==
    [user_id |-> sub.user_id,
     subscription_type |-> sub.subscription_type,
     start_date |-> sub.start_date,
     end_date |-> sub.end_date,
     remaining_credits |-> sub.remaining_credits]

\* Subscription.from_dict: returns [exc, sub]
from_dict(data) ==
    LET t == EnumOfValue(data.subscription_type)
    IN  IF t.exc # NoExc THEN [exc |-> t.exc, sub |-> None]
        ELSE LET c == SubscriptionInit(data.user_id, t.member,
                                       data.start_date, data.end_date)
             IN  IF c.exc # NoExc THEN c
                 ELSE [exc |-> NoExc,
                       sub |-> [c.sub EXCEPT
                                  !.remaining_credits = data.remaining_credits]]

\* ----------------------------------------------------------- the store ----
\* the value of by_user_id at a user id that is not one of its keys
NoRecord == [absent |-> TRUE]

\* Records the subscriptions file holds at the start: to_dict images of newly
\* constructed Subscriptions (both dates present, start_date <= end_date, the
\* credit counter as the constructor sets it). Only a GOLD record's dates are
\* ever read back by the engine, so GOLD records take every window within
\* 0..MaxDay and the other tiers the one window [0, 0].
Windows(t) ==
    IF t = "gold"
    THEN {w \in (0..MaxDay) \X (0..MaxDay) : w[1] <= w[2]}
    ELSE {<<0, 0>>}

StoredRecords(u) ==
    { [user_id |-> u, subscription_type |-> t,
       start_date |-> Iso(w[1]), end_date |-> Iso(w[2]),
       remaining_credits |-> IF t = "silver" THEN InitialCredits ELSE 0] :
         <<t, w>> \in { x \in SubscriptionType \X ((0..MaxDay) \X (0..MaxDay)) :
                          x[2] \in Windows(x[1]) } }

\* load_subscriptions / save_subscriptions: imported by the service from
\* storage.json_storage, which does not define them; taken, as load_users and
\* save_users are written, to read and write the whole by_user_id map as one
\* unit.
load_subscriptions(file) == file

save_subscriptions(file, data) == data

\* _load_user_subscriptions: returns [exc, sub]; sub is None when no record
load_user_subscriptions(file, user_id) ==
    LET data == load_subscriptions(file)
    IN  IF data[user_id] = NoRecord
        THEN [exc |-> NoExc, sub |-> None]
        ELSE from_dict(data[user_id])

\* faulty variant: the file is written with this one record in it
save_user_subscription_Alone(file, subscription) ==
    [u \in DOMAIN file |->
        IF u = subscription.user_id THEN to_dict(subscription) ELSE NoRecord]

\* _save_user_subscription: the file after the save
save_user_subscription(file, subscription) ==
    LET data == load_subscriptions(file)
    IN  save_subscriptions(file,
            [data EXCEPT ![subscription.user_id] = to_dict(subscription)])

\* How a save_data call may end: the file written; open() refused (OSError
\* before anything is written); a write or the closing flush refused (OSError
\* after open(file, "w") truncated the file).
SaveOutcomes == {"saved", "open failed", "write failed"}

\* what load_data returns for the subscriptions file when it does not parse
EmptySubscriptions == [u \in Users |-> NoRecord]

\* save_data on the subscriptions file: returns [exc, file]. OSError becomes
\* CinemaTicketError; a file cut short no longer parses and loads as the
\* empty default.
save_data(file, data, outcome) ==
    IF outcome = "saved" THEN [exc |-> NoExc, file |-> data]
    ELSE IF outcome = "open failed"
    THEN [exc |-> "CinemaTicketError", file |-> file]
    ELSE [exc |-> "CinemaTicketError", file |-> EmptySubscriptions]

\* _save_user_subscription when save_subscriptions, taken to be save_data on
\* the subscriptions file, ends as `outcome`: returns [exc, file]
save_user_subscription_io(file, subscription, outcome) ==
    LET data == load_subscriptions(file)
    IN  save_data(file, [data EXCEPT ![subscription.user_id] = to_dict(subscription)],
                  outcome)

\* faulty variant: the is_active() test is left out
get_user_subscription_AnyRecord(file, day, user_id) ==
    LET l == load_user_subscriptions(file, user_id)
    IN  IF l.exc # NoExc THEN [exc |-> l.exc, sub |-> None, loaded |-> None]
        ELSE IF l.sub = None THEN [exc |-> NoExc, sub |-> None, loaded |-> None]
        ELSE [exc |-> NoExc, sub |-> l.sub, loaded |-> l.sub]

\* get_user_subscription: returns [exc, sub, loaded]; sub is None when there is
\* no record or the record is not active, loaded is what from_dict produced
get_user_subscription(file, day, user_id) ==
    LET l == load_user_subscriptions(file, user_id)
    IN  IF l.exc # NoExc THEN [exc |-> l.exc, sub |-> None, loaded |-> None]
        ELSE IF l.sub = None THEN [exc |-> NoExc, sub |-> None, loaded |-> None]
        ELSE IF ~is_active(l.sub, day)
        THEN [exc |-> NoExc, sub |-> None, loaded |-> l.sub]
        ELSE [exc |-> NoExc, sub |-> l.sub, loaded |-> l.sub]

\* has_active_subscription: returns [exc, ret]
has_active_subscription(file, day, user_id) ==
    LET g == get_user_subscription(file, day, user_id)
    IN  IF g.exc # NoExc THEN [exc |-> g.exc, ret |-> None]
        ELSE [exc |-> NoExc, ret |-> (g.sub # None)]

\* get_user_subscription_type: returns [exc, ret]
get_user_subscription_type(file, day, user_id) ==
    LET g == get_user_subscription(file, day, user_id)
    IN  IF g.exc # NoExc THEN [exc |-> g.exc, ret |-> None]
        ELSE IF g.sub = None THEN [exc |-> NoExc, ret |-> "bronze"]
        ELSE [exc |-> NoExc, ret |-> g.sub.subscription_type]

\* ------------------------------------------------------- core/user.py ----
\* faulty variant: 2% for 20%
Cashback_TwoPercent(amount) == (amount * 2) \div 100

\* cashback = amount * Decimal("0.2"): exact on mils that are whole cents
Cashback(amount) == (amount * 2) \div 10

\* faulty variant: the cashback rate for the discount rate
Discount_AtCashbackRate(amount) == (amount * 2) \div 10

\* discount = amount * Decimal("0.5")
Discount(amount) == (amount * 5) \div 10

\* User._set_initial_balance: returns [exc, balance]
set_initial_balance(value) ==
    IF value < 0
    THEN [exc |-> "InvalidAmountError", balance |-> None]
    ELSE [exc |-> NoExc, balance |-> value]

\* faulty variant: the amount is added unchecked
deposit_NoValidation(balance, amount) ==
    [exc |-> NoExc, balance |-> balance + amount]

\* User.deposit: returns [exc, balance]
deposit(balance, amount) ==
    IF amount <= 0
    THEN [exc |-> "InvalidAmountError", balance |-> balance]
    ELSE [exc |-> NoExc, balance |-> balance + amount]

\* faulty variant: the balance is not compared with the amount
withdraw_NoBalanceCheck(balance, amount) ==
    IF amount <= 0
    THEN [exc |-> "InvalidAmountError", balance |-> balance]
    ELSE [exc |-> NoExc, balance |-> balance - amount]

\* User.withdraw: returns [exc, balance]
withdraw(balance, amount) ==
    IF amount <= 0
    THEN [exc |-> "InvalidAmountError", balance |-> balance]
    ELSE IF amount > balance
    THEN [exc |-> "InsufficientBalanceError", balance |-> balance]
    ELSE [exc |-> NoExc, balance |-> balance - amount]

\* ------------------------------------------------- strings, passwords ----
RECURSIVE LStrip(_)
LStrip(s) == IF s # <<>> /\ Head(s) = " " THEN LStrip(Tail(s)) ELSE s

RECURSIVE RStrip(_)
RStrip(s) ==
    IF s # <<>> /\ s[Len(s)] = " " THEN RStrip(SubSeq(s, 1, Len(s) - 1)) ELSE s

\* str.strip()
Strip(s) == RStrip(LStrip(s))

\* Usernames as callers type them: strings are sequences of characters, so that
\* strip() and len() are computed on them.
Ann == <<"a", "n", "n">>

AnnPadded == <<" ", "a", "n", "n">>

Bob == <<"b", "o", "b">>

Al == <<"a", "l">>

UserNames == {Ann, AnnPadded, Bob, Al}

\* Passwords as callers type them. str.isupper / islower / isdigit on the
\* characters they are made of:
UpperCase == {"P"}

LowerCase == {"a", "s", "w", "o", "r", "p"}

Digits == {"1", "2"}

PwOld == <<"P", "a", "s", "s", "w", "o", "r", "1">>

PwNew == <<"P", "a", "s", "s", "w", "o", "r", "2">>

PwWeak == <<"p", "w", "1">>

Passwords == {PwOld, PwNew, PwWeak}

\* the salt uuid.uuid4() gives hash_password
Salts == {"s1"}

\* hashlib.pbkdf2_hmac('sha256', password, salt, 100000): one digest per
\* (password, salt), no two pairs sharing one
Pbkdf2(password, salt) == [password |-> password, salt |-> salt]

\* hash_password with the salt uuid4 gave: (salt, hash)
hash_password(password, salt) ==
    [salt |-> salt, password_hash |-> Pbkdf2(password, salt)]

\* faulty variant: every password verifies
verify_password_Always(stored_salt, stored_hash, provided_password) == TRUE

\* verify_password
verify_password(stored_salt, stored_hash, provided_password) ==
    Pbkdf2(provided_password, stored_salt) = stored_hash

\* ------------------------------------------- core/user.py: the entity ----
\* a Decimal, and the float json.load gives for a JSON number, both in mils
DecimalOf(mils) == [type |-> "Decimal", mils |-> mils]

FloatOf(mils) == [type |-> "float", mils |-> mils]

\* User.set_password with the salt uuid4 gives: returns [exc, user]
set_password(user, password, salt) ==
    IF \/ Len(password) < 8
       \/ ~\E i \in 1..Len(password) : password[i] \in UpperCase
       \/ ~\E i \in 1..Len(password) : password[i] \in LowerCase
       \/ ~\E i \in 1..Len(password) : password[i] \in Digits
    THEN [exc |-> "InvalidPasswordError", user |-> None]
    ELSE [exc |-> NoExc,
          user |-> [user EXCEPT
                      !.salt = hash_password(password, salt).salt,
                      !.password_hash = hash_password(password, salt).password_hash]]

\* The username setter: returns [exc, username]
SetUsername(value) ==
    LET v == Strip(value)
    IN  IF Len(v) < 3 THEN [exc |-> "InvalidUserNameError", username |-> None]
        ELSE [exc |-> NoExc, username |-> v]

\* User.__init__ called with a valid birth date and no phone: returns
\* [exc, user]. user_id is the id given or the one generate_unique_id() gave;
\* stored is [salt, password_hash] when both are given and None otherwise;
\* new_salt is the salt uuid4 gives if the password is hashed.
UserInit(username, password, user_id, stored, wallet_balance, new_salt) ==
    LET n == SetUsername(username)
        b == set_initial_balance(wallet_balance.mils)
        u == [id |-> user_id, username |-> n.username,
              salt |-> IF stored = None THEN "" ELSE stored.salt,
              password_hash |-> IF stored = None THEN None
                                ELSE stored.password_hash,
              wallet_balance |-> DecimalOf(b.balance)]
    IN  IF n.exc # NoExc THEN [exc |-> n.exc, user |-> None]
        ELSE IF b.exc # NoExc THEN [exc |-> b.exc, user |-> None]
        ELSE IF stored # None
        THEN [exc |-> NoExc, user |-> u]
        ELSE set_password(u, password, new_salt)

\* User.check_password
check_password(user, password) ==
    verify_password(user.salt, user.password_hash, password)

\* User.to_dict: wallet_balance is the Decimal itself
user_to_dict(user) ==
    [id |-> user.id, username |-> user.username, salt |-> user.salt,
     password_hash |-> user.password_hash,
     wallet_balance |-> user.wallet_balance]

\* User.from_dict: returns [exc, user]; the password argument is ""
user_from_dict(data) ==
    UserInit(data.username, <<>>, data.id,
             [salt |-> data.salt, password_hash |-> data.password_hash],
             data.wallet_balance, "")

\* ------------------------------------- storage/json_storage.py: users ----
\* the ids generate_unique_id() may return
UserIds == {"id1", "id2"}

\* the value of username_index at a name that is not one of its keys
NoId == "-"

\* DEFAULT_USERS_STRUCTURE as the module defines it: by_id and username_index
\* without keys
EmptyUsers ==
    [by_id |-> [i \in UserIds |-> NoRecord],
     username_index |-> [n \in UserNames |-> NoId]]

\* the users file before it was ever written
FileMissing == [kind |-> "missing"]

\* the users file after a json.dump that raised part-way: text that does not parse
FileCorrupt == [kind |-> "corrupt"]

JsonFile(data) == [kind |-> "json", data |-> data]

\* a by_id record as json.load returns it: wallet_balance is a JSON number
StoredUser(id, username, password, salt) ==
    [id |-> id, username |-> username, salt |-> salt,
     password_hash |-> Pbkdf2(password, salt), wallet_balance |-> FloatOf(0)]

\* load_data returns `default` itself, not a copy, when the file is missing or
\* does not parse: what the caller then writes into the dict it got is written
\* into DEFAULT_USERS_STRUCTURE.
Aliased(file) == file.kind # "json"

\* load_users
load_users(file, default) == IF Aliased(file) THEN default ELSE file.data

\* json.dump accepts str, float, None, dict; a Decimal makes it raise TypeError
JsonSerializable(data) ==
    \A i \in DOMAIN data.by_id :
        data.by_id[i] = NoRecord
        \/ data.by_id[i].wallet_balance.type # "Decimal"

\* save_users: returns [exc, file]. open(file, "w") truncates the file and
\* json.dump writes it piece by piece, so a dump that raises leaves a prefix.
save_users(data) ==
    IF JsonSerializable(data)
    THEN [exc |-> NoExc, file |-> JsonFile(data)]
    ELSE [exc |-> "TypeError", file |-> FileCorrupt]

\* ---------------------------------------------- services/auth_service.py ----
\* faulty variant: no name is ever found in the index
InIndex_Never(username_index, username) == FALSE

\* `key in dict` for username_index and for by_id

InIndex(username_index, username) == username_index[username] # NoId

InById(by_id, user_id) == by_id[user_id] # NoRecord

\* The service functions below take the users file and DEFAULT_USERS_STRUCTURE
\* and return [exc, ret, file, default]: how the call ended, what it returned,
\* and the two after the call.

\* register_user, called with a valid birth date and no phone; new_id and
\* new_salt are what uuid4 gives the User it builds
register_user(file, default, username, password, new_id, new_salt) ==
    LET data == load_users(file, default)
        name == Strip(username)
        c == UserInit(name, password, new_id, None, DecimalOf(0), new_salt)
        user == c.user
        written == [by_id |-> [data.by_id EXCEPT ![user.id] = user_to_dict(user)],
                    username_index |->
                        [data.username_index EXCEPT ![name] = user.id]]
        saved == save_users(written)
    IN  IF InIndex(data.username_index, name)
        THEN [exc |-> "UsernameAlreadyExistsError", ret |-> None,
              file |-> file, default |-> default]
        ELSE IF c.exc # NoExc
        THEN [exc |-> c.exc, ret |-> None, file |-> file, default |-> default]
        ELSE [exc |-> saved.exc,
              ret |-> IF saved.exc = NoExc THEN user ELSE None,
              file |-> saved.file,
              default |-> IF Aliased(file) THEN written ELSE default]

\* login_user
login_user(file, default, username, password) ==
    LET data == load_users(file, default)
        name == Strip(username)
        user_id == data.username_index[name]
        l == user_from_dict(data.by_id[user_id])
        unchanged(exc, ret) ==
            [exc |-> exc, ret |-> ret, file |-> file, default |-> default]
    IN  IF ~InIndex(data.username_index, name)
        THEN unchanged("UserNotFoundError", None)
        ELSE IF ~InById(data.by_id, user_id)
        THEN unchanged("InvalidCredentialsError", None)
        ELSE IF l.exc # NoExc
        THEN unchanged("InvalidCredentialsError", None)
        ELSE IF ~check_password(l.user, password)
        THEN unchanged("InvalidCredentialsError", None)
        ELSE unchanged(NoExc, l.user)

\* ---------------------------------------------- services/user_service.py ----
\* _load_user_by_id: returns [exc, user]
load_user_by_id(file, default, user_id) ==
    LET data == load_users(file, default)
    IN  IF ~InById(data.by_id, user_id)
        THEN [exc |-> "UserNotFoundError", user |-> None]
        ELSE user_from_dict(data.by_id[user_id])

\* _save_user: returns [exc, file, default]; old_username is None when not given
save_user(file, default, user, update_index, old_username) ==
    LET data == load_users(file, default)
        by_id == [data.by_id EXCEPT ![user.id] = user_to_dict(user)]
        username_index ==
            IF update_index /\ old_username # None
            THEN [[data.username_index EXCEPT ![old_username.name] = NoId]
                     EXCEPT ![user.username] = user.id]
            ELSE data.username_index
        written == [by_id |-> by_id, username_index |-> username_index]
        saved == save_users(written)
    IN  [exc |-> saved.exc, file |-> saved.file,
         default |-> IF Aliased(file) THEN written ELSE default]

\* change_username
change_username(file, default, user_id, new_username) ==
    LET data == load_users(file, default)
        l == load_user_by_id(file, default, user_id)
        user == l.user
        old_username == user.username
        n == SetUsername(new_username)
        renamed == [user EXCEPT !.username = n.username]
        \* lines 145-147 write into the dict the first load_users() returned
        local_index == [[data.username_index EXCEPT ![old_username] = NoId]
                           EXCEPT ![new_username] = user_id]
        default1 == IF Aliased(file)
                    THEN [default EXCEPT !.username_index = local_index]
                    ELSE default
        saved == save_user(file, default1, renamed, TRUE,
                           [name |-> old_username])
        unchanged(exc, ret) ==
            [exc |-> exc, ret |-> ret, file |-> file, default |-> default]
    IN  IF /\ InIndex(data.username_index, new_username)
           /\ data.username_index[new_username] # user_id
        THEN unchanged("UsernameAlreadyExistsError", None)
        ELSE IF l.exc # NoExc THEN unchanged(l.exc, None)
        ELSE IF user.username = new_username THEN unchanged(NoExc, user)
        ELSE IF n.exc # NoExc THEN unchanged(n.exc, None)
        ELSE [exc |-> saved.exc,
              ret |-> IF saved.exc = NoExc THEN renamed ELSE None,
              file |-> saved.file, default |-> saved.default]

\* change_password; new_salt is the salt uuid4 gives set_password
change_password(file, default, user_id, current_password, new_password, confirm_password, new_salt) ==
    LET l == load_user_by_id(file, default, user_id)
        user == l.user
        p == set_password(user, new_password, new_salt)
        saved == save_user(file, default, p.user, FALSE, None)
        unchanged(exc, ret) ==
            [exc |-> exc, ret |-> ret, file |-> file, default |-> default]
    IN  IF l.exc # NoExc THEN unchanged(l.exc, None)
        ELSE IF ~check_password(user, current_password)
        THEN unchanged("WrongPasswordError", None)
        ELSE IF new_password # confirm_password
        THEN unchanged("PasswordMismatchError", None)
        ELSE IF new_password = current_password THEN unchanged(NoExc, user)
        ELSE IF p.exc # NoExc THEN unchanged(p.exc, None)
        ELSE [exc |-> saved.exc,
              ret |-> IF saved.exc = NoExc THEN p.user ELSE None,
              file |-> saved.file, default |-> saved.default]

\* ------------------------------ services/gateway.py, gateway_service.py ----
\* descriptions callers give a transaction
Descriptions == {"ticket", "refund"}

\* Gateway.process_amount: returns [exc, ret, transactions]
process_amount(list, amount, user_id, discription) ==
    IF amount <= 0
    THEN [exc |-> "InvalidAmountError", ret |-> None, transactions |-> list]
    ELSE [exc |-> NoExc, ret |-> TRUE,
          transactions |-> Append(list, [user_id |-> user_id, amount |-> amount,
                                         description |-> discription])]

\* Gateway_service.deposit_to_wallet: the result of process_amount, logged
deposit_to_wallet(list, amount, user, description) ==
    process_amount(list, amount, user, description)

\* Gateway_service.withdraw_from_wallet: process_amount is given -amount
withdraw_from_wallet(list, amount, user, description) ==
    process_amount(list, -amount, user, description)

\* ---------------------------------------------------------------- state ----
VARIABLES
    subscriptions,  \* the subscriptions file: by_user_id, user id -> record
    today,          \* the calendar day datetime.today() returns
    wallet,         \* wallet_balance of each user's in-memory User, in mils
    held,           \* counters of the Subscription object an operation last held for a user
    drinks_granted, \* whether a drink was granted to the user since the subscription was created
    run,            \* create(SILVER) followed by apply calls for one user: how far it got
    last,           \* the call made by the last step and how it ended
    users_file,     \* the users file (USERS_FILE): missing, not JSON, or by_id + username_index
    users_default,  \* DEFAULT_USERS_STRUCTURE, the dict load_users hands out when the file does not parse
    transactions,   \* Gateway.transactions, the list of the one Gateway object
    calls           \* apply_subscription_benefits calls in flight, per caller: what each holds

vars == <<subscriptions, today, wallet, held, drinks_granted, run, last,
          users_file, users_default, transactions, calls>>

\* the state of the subscription engine other than wallet and last
engine_vars == <<subscriptions, today, held, drinks_granted, run>>

\* the state of the users store
users_vars == <<users_file, users_default>>

\* the callers that may be inside apply_subscription_benefits at one time
Callers == {"c1", "c2"}

\* a caller that is not inside a call
Idle == [pc |-> "idle"]

NoCalls == [c \in Callers |-> Idle]


Counters(sub) ==
    [remaining_credits |-> sub.remaining_credits,
     apply_gold_drink_benefits |-> sub.apply_gold_drink_benefits]

\* loaded: the Subscription from_dict produced for the call, if it loaded one;
\* granted_before: drinks_granted of the user when the call was made
Call(op, user, arg, exc, ret, loaded) ==
    [op |-> op, user |-> user, arg |-> arg, exc |-> exc, ret |-> ret,
     loaded |-> loaded,
     granted_before |-> IF user \in Users THEN drinks_granted[user] ELSE FALSE]

NoUser == "-"

NoRun == [user |-> NoUser, n |-> 0]

\* The users file of the engine's users: each registered (u1 as ann, u2 as
\* bob) with the default wallet balance, as a file that loads.
UsersOfEngine ==
    LET name == [u \in Users |-> IF u = "u1" THEN Ann ELSE Bob]
    IN  [by_id |-> [u \in Users |-> StoredUser(u, name[u], PwOld, "s0")],
         username_index |->
             [n \in UserNames |->
                 IF \E u \in Users : name[u] = n
                 THEN CHOOSE u \in Users : name[u] = n ELSE NoId]]

Init ==
    /\ \E file \in [Users -> {NoRecord} \cup UNION {StoredRecords(u) : u \in Users}] :
         /\ \A u \in Users : file[u] # NoRecord => file[u].user_id = u
         /\ subscriptions = file
    /\ today = 0
    /\ wallet = [u \in Users |-> 0]
    /\ held = [u \in Users |-> None]
    /\ drinks_granted = [u \in Users |-> FALSE]
    /\ run = NoRun
    /\ last = Call("start", NoUser, None, NoExc, None, None)
    /\ users_file = JsonFile(UsersOfEngine)
    /\ users_default = EmptyUsers
    /\ transactions = <<>>
    /\ calls = NoCalls

\* The day changes between two calls.
Tick ==
    /\ today < MaxToday
    /\ today' = today + 1
    /\ last' = Call("tick", NoUser, None, NoExc, None, None)
    /\ run' = NoRun
    /\ UNCHANGED <<subscriptions, wallet, held, drinks_granted>>
    /\ UNCHANGED <<users_vars, transactions, calls>>

\* datetime.datetime.now(datetime.timezone.utc) where `datetime` is the class
\* imported by `from datetime import datetime`: the attribute lookup fails.
UtcNow == [exc |-> "AttributeError", day |-> None]

GoldDays == 30

create_subscription(user_id, subscription_type) ==
    LET now == UtcNow
        end_date == IF subscription_type.value = "gold"
                    THEN Iso(now.day + GoldDays) ELSE None
        c == SubscriptionInit(user_id, subscription_type, Iso(now.day), end_date)
        exc == IF ~IsSubscriptionType(subscription_type)
               THEN "InvalidSubscriptionTypeError"
               ELSE IF now.exc # NoExc THEN now.exc
               ELSE c.exc
    IN  /\ last' = Call("create_subscription", user_id, subscription_type, exc,
                        IF exc = NoExc THEN c.sub ELSE None, None)
        /\ IF exc = NoExc
           THEN /\ subscriptions' = save_user_subscription(subscriptions, c.sub)
                /\ held' = [held EXCEPT ![user_id] = Counters(c.sub)]
           ELSE UNCHANGED <<subscriptions, held>>
        /\ drinks_granted' =
             IF exc = NoExc THEN [drinks_granted EXCEPT ![user_id] = FALSE]
             ELSE drinks_granted
        /\ run' = IF subscription_type = [kind |-> "enum", value |-> "silver"]
                  THEN [user |-> user_id, n |-> 1] ELSE NoRun
        /\ UNCHANGED <<today, wallet>>
        /\ UNCHANGED <<users_vars, transactions, calls>>


\* faulty variant: two credits go at once
SpendCredit_Two(sub) == [sub EXCEPT !.remaining_credits = @ - 2]

\* sub.remaining_credits -= 1
SpendCredit(sub) == [sub EXCEPT !.remaining_credits = @ - 1]

\* sub.apply_gold_drink_benefits -= 1
ConsumeDrink(sub) == [sub EXCEPT !.apply_gold_drink_benefits = @ - 1]

\* What an operation that loaded the user's subscription leaves in `held`.
HeldAfter(user, loaded) ==
    IF loaded = None THEN held ELSE [held EXCEPT ![user] = Counters(loaded)]

\* apply_subscription_benefits, lines 158-186: what the call does to the
\* wallet of the User it is given and to the subscriptions file
ApplyToSubscription(user, amount) ==
    LET g == get_user_subscription(subscriptions, today, user)
        sub == g.sub
        cashback == Cashback(amount)
        d == deposit(wallet[user], cashback)
        spent == SpendCredit(sub)
        discount == Discount(amount)
        n == IF run.user = user /\ run.n >= 1 /\ run.n <= 4 /\ amount > 0
             THEN run.n + 1 ELSE 0
    IN  /\ run' = IF n = 0 THEN NoRun ELSE [user |-> user, n |-> n]
        /\ UNCHANGED <<today, drinks_granted>>
        /\ IF g.exc # NoExc
           THEN /\ last' = Call("apply_subscription_benefits", user, amount,
                                g.exc, None, None)
                /\ UNCHANGED <<subscriptions, wallet, held>>
           ELSE IF sub = None
           THEN /\ last' = Call("apply_subscription_benefits", user, amount,
                                NoExc, amount, g.loaded)
                /\ held' = HeldAfter(user, g.loaded)
                /\ UNCHANGED <<subscriptions, wallet>>
           ELSE IF sub.subscription_type = "silver"
           THEN IF sub.remaining_credits <= 0
                THEN /\ last' = Call("apply_subscription_benefits", user, amount,
                                     NoExc, amount, g.loaded)
                     /\ held' = HeldAfter(user, g.loaded)
                     /\ UNCHANGED <<subscriptions, wallet>>
                ELSE IF d.exc # NoExc
                THEN /\ last' = Call("apply_subscription_benefits", user, amount,
                                     d.exc, None, g.loaded)
                     /\ held' = HeldAfter(user, g.loaded)
                     /\ UNCHANGED <<subscriptions, wallet>>
                ELSE /\ wallet' = [wallet EXCEPT ![user] = d.balance]
                     /\ subscriptions' = save_user_subscription(subscriptions, spent)
                     /\ held' = HeldAfter(user, spent)
                     /\ last' = Call("apply_subscription_benefits", user, amount,
                                     NoExc, amount, g.loaded)
           ELSE IF sub.subscription_type = "gold"
           THEN /\ last' = Call("apply_subscription_benefits", user, amount,
                                NoExc, amount - discount, g.loaded)
                /\ held' = HeldAfter(user, g.loaded)
                /\ UNCHANGED <<subscriptions, wallet>>
           ELSE /\ last' = Call("apply_subscription_benefits", user, amount,
                                NoExc, amount, g.loaded)
                /\ held' = HeldAfter(user, g.loaded)
                /\ UNCHANGED <<subscriptions, wallet>>

\* faulty variant: the User whose wallet took the cashback is saved as well
apply_subscription_benefits_SavingUser(user, amount) ==
    /\ ApplyToSubscription(user, amount)
    /\ LET l == load_user_by_id(users_file, users_default, user)
           paid == [l.user EXCEPT !.wallet_balance = DecimalOf(wallet'[user])]
           saved == save_user(users_file, users_default, paid, FALSE, None)
       IN  IF wallet'[user] # wallet[user] /\ l.exc = NoExc
           THEN users_file' = saved.file /\ users_default' = saved.default
           ELSE UNCHANGED users_vars
    /\ UNCHANGED <<transactions, calls>>

\* apply_subscription_benefits: it calls user.deposit and
\* _save_user_subscription, and nothing that writes the users file
apply_subscription_benefits(user, amount) ==
    /\ ApplyToSubscription(user, amount)
    /\ UNCHANGED <<users_vars, transactions, calls>>

remaining_gold_drink_benefits(user) ==
    LET g == get_user_subscription(subscriptions, today, user)
        sub == g.sub
        drunk == ConsumeDrink(sub)
    IN  /\ run' = NoRun
        /\ UNCHANGED <<today, wallet>>
        /\ UNCHANGED <<users_vars, transactions, calls>>
        /\ IF g.exc # NoExc
           THEN /\ last' = Call("remaining_gold_drink_benefits", user, None,
                                g.exc, None, None)
                /\ UNCHANGED <<subscriptions, held, drinks_granted>>
           ELSE IF sub = None \/ sub.subscription_type # "gold"
           THEN /\ last' = Call("remaining_gold_drink_benefits", user, None,
                                NoExc, FALSE, g.loaded)
                /\ held' = HeldAfter(user, g.loaded)
                /\ UNCHANGED <<subscriptions, drinks_granted>>
           ELSE IF sub.apply_gold_drink_benefits <= 0
           THEN /\ last' = Call("remaining_gold_drink_benefits", user, None,
                                NoExc, FALSE, g.loaded)
                /\ held' = HeldAfter(user, g.loaded)
                /\ UNCHANGED <<subscriptions, drinks_granted>>
           ELSE /\ subscriptions' = save_user_subscription(subscriptions, drunk)
                /\ held' = HeldAfter(user, drunk)
                /\ drinks_granted' = [drinks_granted EXCEPT ![user] = TRUE]
                /\ last' = Call("remaining_gold_drink_benefits", user, None,
                                NoExc, TRUE, g.loaded)

\* The three read-only operations, called by a client.
Query_get_user_subscription(user_id) ==
    LET g == get_user_subscription(subscriptions, today, user_id)
    IN  /\ last' = Call("get_user_subscription", user_id, None, g.exc, g.sub, g.loaded)
        /\ held' = HeldAfter(user_id, g.loaded)
        /\ run' = NoRun
        /\ UNCHANGED <<subscriptions, today, wallet, drinks_granted>>
        /\ UNCHANGED <<users_vars, transactions, calls>>

Query_has_active_subscription(user_id) ==
    LET g == get_user_subscription(subscriptions, today, user_id)
        r == has_active_subscription(subscriptions, today, user_id)
    IN  /\ last' = Call("has_active_subscription", user_id, None, r.exc, r.ret, g.loaded)
        /\ held' = HeldAfter(user_id, g.loaded)
        /\ run' = NoRun
        /\ UNCHANGED <<subscriptions, today, wallet, drinks_granted>>
        /\ UNCHANGED <<users_vars, transactions, calls>>

Query_get_user_subscription_type(user_id) ==
    LET g == get_user_subscription(subscriptions, today, user_id)
        r == get_user_subscription_type(subscriptions, today, user_id)
    IN  /\ last' = Call("get_user_subscription_type", user_id, None, r.exc, r.ret, g.loaded)
        /\ held' = HeldAfter(user_id, g.loaded)
        /\ run' = NoRun
        /\ UNCHANGED <<subscriptions, today, wallet, drinks_granted>>
        /\ UNCHANGED <<users_vars, transactions, calls>>

Next ==
    \/ Tick
    \/ \E u \in Users, t \in TierArgs : create_subscription(u, t)
    \/ \E u \in Users, a \in Amounts : apply_subscription_benefits(u, a)
    \/ \E u \in Users : remaining_gold_drink_benefits(u)
    \/ \E u \in Users : Query_get_user_subscription(u)
    \/ \E u \in Users : Query_has_active_subscription(u)
    \/ \E u \in Users : Query_get_user_subscription_type(u)

Spec == Init /\ [][Next]_vars

\* ------------------------------------ the wallet of a User, driven directly ----
\* amounts and opening balances callers pass, in mils
WalletAmounts == Amounts \cup {2000}

\* the users as User(...) builds them with the default wallet_balance
InitWallet ==
    /\ wallet = [u \in Users |-> 0]
    /\ last = Call("start", NoUser, None, NoExc, None, None)
    /\ subscriptions = [u \in Users |-> NoRecord]
    /\ today = 0
    /\ held = [u \in Users |-> None]
    /\ drinks_granted = [u \in Users |-> FALSE]
    /\ run = NoRun
    /\ users_file = FileMissing
    /\ users_default = EmptyUsers
    /\ transactions = <<>>
    /\ calls = NoCalls

\* User(..., wallet_balance=value) taking the place of the user object u
NewUser(u, value) ==
    LET b == set_initial_balance(value)
    IN  /\ last' = Call("User", u, value, b.exc, None, None)
        /\ wallet' = IF b.exc = NoExc THEN [wallet EXCEPT ![u] = b.balance]
                      ELSE wallet
        /\ UNCHANGED <<engine_vars, users_vars, transactions, calls>>

\* user.deposit(amount)
Deposit(u, amount) ==
    LET d == deposit(wallet[u], amount)
    IN  /\ wallet[u] + amount <= MaxBalance * 1000
        /\ last' = Call("deposit", u, amount, d.exc, None, None)
        /\ wallet' = [wallet EXCEPT ![u] = d.balance]
        /\ UNCHANGED <<engine_vars, users_vars, transactions, calls>>

\* user.withdraw(amount)
Withdraw(u, amount) ==
    LET w == withdraw(wallet[u], amount)
    IN  /\ last' = Call("withdraw", u, amount, w.exc, None, None)
        /\ wallet' = [wallet EXCEPT ![u] = w.balance]
        /\ UNCHANGED <<engine_vars, users_vars, transactions, calls>>

\* User.from_dict(user.to_dict()) for a User built with this name and password,
\* the id u and the balance of u's wallet
ToDictFromDict(u, username, password) ==
    LET c == UserInit(username, password, u, None, DecimalOf(wallet[u]), "s1")
        data == user_to_dict(c.user)
        l == user_from_dict(data)
    IN  /\ last' = Call("to_dict", u, [username |-> username, password |-> password],
                        IF c.exc # NoExc THEN c.exc ELSE l.exc,
                        IF c.exc # NoExc THEN None
                        ELSE [user |-> c.user, data |-> data, loaded |-> l.user],
                        None)
        /\ UNCHANGED <<engine_vars, wallet, users_vars, transactions, calls>>

NextWallet ==
    \/ \E u \in Users, v \in WalletAmounts : NewUser(u, v)
    \/ \E u \in Users, a \in WalletAmounts : Deposit(u, a)
    \/ \E u \in Users, a \in WalletAmounts : Withdraw(u, a)
    \/ \E u \in Users, n \in UserNames, p \in Passwords : ToDictFromDict(u, n, p)

SpecWallet == InitWallet /\ [][NextWallet]_vars

\* ------------------------------ the Subscription entity, driven directly ----
\* Dates a caller passes to the constructor: in the ISO layout, in one of the
\* other accepted layouts, and in a layout none of the three formats parses.
StartArgs == {Iso(0), DateStr("%d/%m/%Y", MaxDay), DateStr("%m-%d-%Y", 0)}

\* end_date is None when the caller has no end date (create_subscription for a
\* tier other than GOLD)
EndArgs == {None, Iso(0), Iso(MaxDay), DateStr("%m-%d-%Y", 0)}

\* Records a subscriptions file may hold for a user: the StoredRecords, SILVER
\* records with every counter value an apply leaves behind, and a record whose
\* subscription_type is not a value of the enum.
EntityRecords(u) ==
    StoredRecords(u)
    \cup { [user_id |-> u, subscription_type |-> "silver",
            start_date |-> Iso(0), end_date |-> Iso(0),
            remaining_credits |-> c] : c \in 0..InitialCredits }
    \cup { [user_id |-> u, subscription_type |-> "platinum",
            start_date |-> Iso(0), end_date |-> Iso(0),
            remaining_credits |-> 0] }

InitEntity ==
    /\ \E file \in [Users -> {NoRecord} \cup UNION {EntityRecords(u) : u \in Users}] :
         /\ \A u \in Users : file[u] # NoRecord => file[u].user_id = u
         /\ subscriptions = file
    /\ today = 0
    /\ wallet = [u \in Users |-> 0]
    /\ held = [u \in Users |-> None]
    /\ drinks_granted = [u \in Users |-> FALSE]
    /\ run = NoRun
    /\ last = Call("start", NoUser, None, NoExc, None, None)
    /\ users_file = FileMissing
    /\ users_default = EmptyUsers
    /\ transactions = <<>>
    /\ calls = NoCalls

\* Subscription(user_id, subscription_type, start_date, end_date)
Construct(user_id, subscription_type, start_date, end_date) ==
    LET c == SubscriptionInit(user_id, subscription_type, start_date, end_date)
    IN  /\ last' = Call("Subscription", user_id,
                        [subscription_type |-> subscription_type,
                         start_date |-> start_date, end_date |-> end_date],
                        c.exc, c.sub, None)
        /\ UNCHANGED <<engine_vars, wallet, users_vars, transactions, calls>>

\* _load_user_subscriptions(user_id): Subscription.from_dict of the stored record
Load(user_id) ==
    LET l == load_user_subscriptions(subscriptions, user_id)
    IN  /\ last' = Call("_load_user_subscriptions", user_id,
                        subscriptions[user_id], l.exc, l.sub, l.sub)
        /\ UNCHANGED <<engine_vars, wallet, users_vars, transactions, calls>>

NextEntity ==
    \/ \E u \in Users, t \in TierArgs, s \in StartArgs, e \in EndArgs :
          Construct(u, t, s, e)
    \/ \E u \in Users : Load(u)

SpecEntity == InitEntity /\ [][NextEntity]_vars


\* ------------------------------------------- the account services, driven ----
UsersOfAnn ==
    [by_id |-> [EmptyUsers.by_id EXCEPT
                  !["id1"] = StoredUser("id1", Ann, PwOld, "s0")],
     username_index |-> [EmptyUsers.username_index EXCEPT ![Ann] = "id1"]]

UsersOfAnnAndBob ==
    [by_id |-> [UsersOfAnn.by_id EXCEPT
                  !["id2"] = StoredUser("id2", Bob, PwOld, "s0")],
     username_index |-> [UsersOfAnn.username_index EXCEPT ![Bob] = "id2"]]

\* username_index names an id that by_id does not hold
UsersDangling ==
    [by_id |-> EmptyUsers.by_id,
     username_index |-> [EmptyUsers.username_index EXCEPT ![Ann] = "id1"]]

\* What the users file holds when the process starts: nothing, or JSON that
\* loads: no user, one, two, or an index entry without its record.
InitialUsersFiles ==
    {FileMissing, JsonFile(EmptyUsers), JsonFile(UsersOfAnn),
     JsonFile(UsersOfAnnAndBob), JsonFile(UsersDangling)}

InitUsers ==
    /\ users_file \in InitialUsersFiles
    /\ users_default = EmptyUsers
    /\ transactions = <<>>
    /\ calls = NoCalls
    /\ last = Call("start", NoUser, None, NoExc, None, None)
    /\ subscriptions = [u \in Users |-> NoRecord]
    /\ today = 0
    /\ wallet = [u \in Users |-> 0]
    /\ held = [u \in Users |-> None]
    /\ drinks_granted = [u \in Users |-> FALSE]
    /\ run = NoRun

\* generate_unique_id() returns an id no stored user has
FreshId(data, id) ==
    /\ ~InById(data.by_id, id)
    /\ \A n \in UserNames : data.username_index[n] # id

Register(username, password, new_id, new_salt) ==
    LET r == register_user(users_file, users_default, username, password,
                           new_id, new_salt)
    IN  /\ FreshId(load_users(users_file, users_default), new_id)
        /\ last' = Call("register_user", NoUser,
                        [username |-> username, password |-> password,
                         new_id |-> new_id],
                        r.exc, r.ret, None)
        /\ users_file' = r.file
        /\ users_default' = r.default
        /\ UNCHANGED <<engine_vars, wallet, transactions, calls>>

Login(username, password) ==
    LET r == login_user(users_file, users_default, username, password)
    IN  /\ last' = Call("login_user", NoUser,
                        [username |-> username, password |-> password],
                        r.exc, r.ret, None)
        /\ users_file' = r.file
        /\ users_default' = r.default
        /\ UNCHANGED <<engine_vars, wallet, transactions, calls>>

ChangeUsername(user_id, new_username) ==
    LET r == change_username(users_file, users_default, user_id, new_username)
    IN  /\ last' = Call("change_username", user_id,
                        [new_username |-> new_username], r.exc, r.ret, None)
        /\ users_file' = r.file
        /\ users_default' = r.default
        /\ UNCHANGED <<engine_vars, wallet, transactions, calls>>

ChangePassword(user_id, current_password, new_password, confirm_password, new_salt) ==
    LET r == change_password(users_file, users_default, user_id,
                             current_password, new_password, confirm_password,
                             new_salt)
    IN  /\ last' = Call("change_password", user_id,
                        [current_password |-> current_password,
                         new_password |-> new_password,
                         confirm_password |-> confirm_password],
                        r.exc, r.ret, None)
        /\ users_file' = r.file
        /\ users_default' = r.default
        /\ UNCHANGED <<engine_vars, wallet, transactions, calls>>

NextUsers ==
    \/ \E n \in UserNames, p \in Passwords, i \in UserIds, s \in Salts :
          Register(n, p, i, s)
    \/ \E n \in UserNames, p \in {PwOld, PwNew} : Login(n, p)
    \/ \E i \in UserIds, n \in UserNames : ChangeUsername(i, n)
    \/ \E i \in UserIds, c \in {PwOld, PwNew}, n \in Passwords, s \in Salts :
          \E f \in {n, PwOld} : ChangePassword(i, c, n, f, s)

SpecUsers == InitUsers /\ [][NextUsers]_vars

\* ------------------------------------------------- the gateway, driven ----
\* one Gateway, newly constructed, and the Gateway_service around it
InitGateway ==
    /\ transactions = <<>>
    /\ calls = NoCalls
    /\ last = Call("start", NoUser, None, NoExc, None, None)
    /\ subscriptions = [u \in Users |-> NoRecord]
    /\ today = 0
    /\ wallet = [u \in Users |-> 0]
    /\ held = [u \in Users |-> None]
    /\ drinks_granted = [u \in Users |-> FALSE]
    /\ run = NoRun
    /\ users_file = FileMissing
    /\ users_default = EmptyUsers

\* gateway_service.deposit_to_wallet(amount, user, description)
GatewayDeposit(amount, user, description) ==
    LET r == deposit_to_wallet(transactions, amount, user, description)
    IN  /\ Len(transactions) < MaxTransactions
        /\ transactions' = r.transactions
        /\ last' = Call("deposit_to_wallet", user,
                        [amount |-> amount, description |-> description],
                        r.exc, r.ret, None)
        /\ UNCHANGED <<engine_vars, wallet, users_vars, calls>>

\* gateway_service.withdraw_from_wallet(amount, user, description)
GatewayWithdraw(amount, user, description) ==
    LET r == withdraw_from_wallet(transactions, amount, user, description)
    IN  /\ Len(transactions) < MaxTransactions
        /\ transactions' = r.transactions
        /\ last' = Call("withdraw_from_wallet", user,
                        [amount |-> amount, description |-> description],
                        r.exc, r.ret, None)
        /\ UNCHANGED <<engine_vars, wallet, users_vars, calls>>

NextGateway ==
    \/ \E a \in Amounts, u \in Users, d \in Descriptions : GatewayDeposit(a, u, d)
    \/ \E a \in Amounts, u \in Users, d \in Descriptions : GatewayWithdraw(a, u, d)

SpecGateway == InitGateway /\ [][NextGateway]_vars

\* ------------------- apply_subscription_benefits, step by step, two callers ----
HasSilver(file, u) ==
    file[u] # NoRecord /\ file[u].subscription_type = "silver"

\* Two callers run apply_subscription_benefits at the same time, each at its own
\* place in the function: after get_user_subscription (line 158), after the
\* deposit and the decrement (lines 173-175), and through
\* _save_user_subscription (line 176), which may fail. The wallet is that of
\* the one User object of the user.
\* The file at the start holds, for each user, no record or a record as
\* created on day 0 (SILVER, or GOLD ending that day), and a SILVER record for
\* one user at most: the callers meet on one user's record.
InitCalls ==
    /\ \E file \in [Users -> {NoRecord} \cup UNION {StoredRecords(u) : u \in Users}] :
         /\ \A u \in Users :
               file[u] # NoRecord =>
                  /\ file[u].user_id = u
                  /\ file[u].subscription_type \in {"silver", "gold"}
                  /\ file[u].end_date = Iso(0)
         /\ \E u \in Users : ~HasSilver(file, u)
         /\ subscriptions = file
    /\ calls = NoCalls
    /\ wallet = [u \in Users |-> 0]
    /\ last = Call("start", NoUser, None, NoExc, None, None)
    /\ today = 0
    /\ held = [u \in Users |-> None]
    /\ drinks_granted = [u \in Users |-> FALSE]
    /\ run = NoRun
    /\ users_file = JsonFile(UsersOfEngine)
    /\ users_default = EmptyUsers
    /\ transactions = <<>>

\* lines 158-169 and 178-186: the call loads the subscription; it returns at
\* once unless it holds a SILVER subscription with credits
Enter(c, user, amount) ==
    LET g == get_user_subscription(subscriptions, today, user)
        sub == g.sub
    IN  /\ calls[c] = Idle
        /\ IF g.exc # NoExc
           THEN /\ last' = Call("apply_subscription_benefits", user, amount,
                                g.exc, None, None)
                /\ UNCHANGED calls
           ELSE IF sub = None
           THEN /\ last' = Call("apply_subscription_benefits", user, amount,
                                NoExc, amount, g.loaded)
                /\ UNCHANGED calls
           ELSE IF sub.subscription_type = "silver" /\ sub.remaining_credits > 0
           THEN /\ last' = Call("get_user_subscription", user, amount,
                                NoExc, sub, g.loaded)
                /\ calls' = [calls EXCEPT ![c] =
                                [pc |-> "loaded", user |-> user,
                                 amount |-> amount, sub |-> sub]]
           ELSE /\ last' = Call("apply_subscription_benefits", user, amount, NoExc,
                                IF sub.subscription_type = "gold"
                                THEN amount - Discount(amount) ELSE amount,
                                g.loaded)
                /\ UNCHANGED calls
        /\ UNCHANGED <<subscriptions, today, wallet, held, drinks_granted, run>>
        /\ UNCHANGED <<users_vars, transactions>>

\* lines 171-175: the cashback is deposited and the credit taken off the
\* Subscription the call holds; a deposit that raises ends the call
Mutate(c) ==
    LET call == calls[c]
        d == deposit(wallet[call.user], Cashback(call.amount))
    IN  /\ call.pc = "loaded"
        /\ d.exc = NoExc => d.balance <= MaxCashbacks * Cashback(1000)
        /\ IF d.exc # NoExc
           THEN /\ last' = Call("apply_subscription_benefits", call.user,
                                call.amount, d.exc, None, call.sub)
                /\ calls' = [calls EXCEPT ![c] = Idle]
                /\ UNCHANGED wallet
           ELSE /\ last' = Call("deposit", call.user, call.amount, NoExc, None,
                                call.sub)
                /\ wallet' = [wallet EXCEPT ![call.user] = d.balance]
                /\ calls' = [calls EXCEPT ![c] =
                                [call EXCEPT !.pc = "mutated",
                                             !.sub = SpendCredit(call.sub)]]
        /\ UNCHANGED <<subscriptions, today, held, drinks_granted, run>>
        /\ UNCHANGED <<users_vars, transactions>>

\* lines 176-177: _save_user_subscription is called once; the call returns the
\* amount or ends with the storage error
Save(c, outcome) ==
    LET call == calls[c]
        saved == save_user_subscription_io(subscriptions, call.sub, outcome)
    IN  /\ call.pc = "mutated"
        /\ subscriptions' = saved.file
        /\ last' = Call("apply_subscription_benefits", call.user, call.amount,
                        saved.exc,
                        IF saved.exc = NoExc THEN call.amount ELSE None,
                        call.sub)
        /\ calls' = [calls EXCEPT ![c] = Idle]
        /\ UNCHANGED <<today, wallet, held, drinks_granted, run>>
        /\ UNCHANGED <<users_vars, transactions>>

NextCalls ==
    \/ \E c \in Callers, u \in Users, a \in Amounts : Enter(c, u, a)
    \/ \E c \in Callers : Mutate(c)
    \/ \E c \in Callers, o \in SaveOutcomes : Save(c, o)

SpecCalls == InitCalls /\ [][NextCalls]_vars

\* the same two callers when every save succeeds
NextRace ==
    \/ \E c \in Callers, u \in Users, a \in Amounts : Enter(c, u, a)
    \/ \E c \in Callers : Mutate(c)
    \/ \E c \in Callers : Save(c, "saved")

SpecRace == InitCalls /\ [][NextRace]_vars

\* ---------------------------------------------------------------- claims ----
Silver == [kind |-> "enum", value |-> "silver"]

Gold == [kind |-> "enum", value |-> "gold"]

HasTier(file, u, t) == file[u] # NoRecord /\ file[u].subscription_type = t

\* a stored GOLD record whose window holds the day
GoldInWindow(file, u, day) ==
    /\ HasTier(file, u, "gold")
    /\ file[u].end_date # None
    /\ file[u].start_date.day <= day
    /\ day <= file[u].end_date.day

\* C1: after create_subscription(u, SILVER) the stored record is a SILVER
\* record with 3 credits; each of the next three apply_subscription_benefits
\* calls with a positive amount adds 20% of the amount to the wallet and the
\* third leaves 0 credits stored; a fourth call changes neither the wallet nor
\* the store and returns the amount.
C1_SilverExhaustion ==
    [][\A u \in Users :
         /\ (run'.user = u /\ run'.n = 1) =>
               /\ last'.exc = NoExc
               /\ HasTier(subscriptions', u, "silver")
               /\ subscriptions'[u].remaining_credits = 3
         /\ (run.user = u /\ run.n \in 1..3 /\ run'.user = u /\ run'.n = run.n + 1) =>
               /\ last'.exc = NoExc
               /\ 5 * (wallet'[u] - wallet[u]) = last'.arg
               /\ (run'.n = 4 =>
                     /\ HasTier(subscriptions', u, "silver")
                     /\ subscriptions'[u].remaining_credits = 0)
         /\ (run.user = u /\ run.n = 4 /\ run'.user = u /\ run'.n = 5) =>
               /\ last'.exc = NoExc
               /\ last'.ret = last'.arg
               /\ wallet' = wallet
               /\ subscriptions' = subscriptions
    ]_vars

\* C2: between two creations, a remaining_gold_drink_benefits call for a user
\* with an active GOLD subscription returns true when no drink was granted yet
\* and false once one was.
C2_DrinkGrantedOnce ==
    \A u \in Users :
        (/\ last.op = "remaining_gold_drink_benefits"
         /\ last.user = u
         /\ GoldInWindow(subscriptions, u, today))
        => /\ last.exc = NoExc
           /\ last.ret = ~last.granted_before

\* C3: create_subscription(u, t) with t SILVER or GOLD returns normally and
\* stores a record for which get_user_subscription_type(u) answers t.
C3_CreateThenType ==
    \A u \in Users :
        (/\ last.op = "create_subscription"
         /\ last.user = u
         /\ last.arg \in {Silver, Gold})
        => /\ last.exc = NoExc
           /\ HasTier(subscriptions, u, last.arg.value)
           /\ get_user_subscription_type(subscriptions, today, u)
                = [exc |-> NoExc, ret |-> last.arg.value]

\* C4: every stored record has 0 <= remaining_credits <= 3, and an
\* apply_subscription_benefits call that paid cashback on a SILVER subscription
\* left the stored counter exactly 1 below the counter it loaded.
C4_CreditsInRange ==
    /\ \A u \in Users :
          subscriptions[u] # NoRecord =>
             /\ subscriptions[u].remaining_credits >= 0
             /\ subscriptions[u].remaining_credits <= 3
    /\ (/\ last.op = "apply_subscription_benefits"
        /\ last.exc = NoExc
        /\ last.loaded # None
        /\ last.loaded.subscription_type = "silver"
        /\ last.loaded.remaining_credits > 0)
       => /\ subscriptions[last.user] # NoRecord
          /\ subscriptions[last.user].remaining_credits
               = last.loaded.remaining_credits - 1

C4_Witness ==
    /\ last.op = "apply_subscription_benefits"
    /\ last.exc = NoExc
    /\ last.loaded # None
    /\ last.loaded.subscription_type = "silver"
    /\ last.loaded.remaining_credits = 1
    /\ subscriptions[last.user].remaining_credits = 0

\* C5: while no subscription is created for a user, the counters of the
\* Subscription an operation loads for that user are never above the counters
\* the previous operation on that user's subscription ended with.
C5_CountersNeverRise ==
    [][\A u \in Users :
         (/\ held[u] # None
          /\ last'.user = u
          /\ last'.op # "create_subscription"
          /\ last'.loaded # None)
         => /\ last'.loaded.remaining_credits <= held[u].remaining_credits
            /\ last'.loaded.apply_gold_drink_benefits
                 <= held[u].apply_gold_drink_benefits
    ]_vars

\* C6: apply_subscription_benefits for a user whose stored GOLD record is in
\* its window returns half the amount, drink granted or not, and changes
\* neither any wallet nor the store.
C6_GoldHalfPrice ==
    [][\A u \in Users :
         (/\ last'.op = "apply_subscription_benefits"
          /\ last'.user = u
          /\ GoldInWindow(subscriptions, u, today))
         => /\ last'.exc = NoExc
            /\ 2 * last'.ret = last'.arg
            /\ wallet' = wallet
            /\ subscriptions' = subscriptions
    ]_vars

C6_Witness ==
    /\ last.op = "apply_subscription_benefits"
    /\ last.user \in Users
    /\ GoldInWindow(subscriptions, last.user, today)
    /\ drinks_granted[last.user]
    /\ last.arg = 1000
    /\ last.ret = 500
    /\ wallet[last.user] = 0

Absent(file, day, u) ==
    \/ file[u] = NoRecord
    \/ ~is_active(from_dict(file[u]).sub, day)

\* C8: get_user_subscription returns None exactly when the user has no stored
\* record or the record is not active, and the loaded Subscription otherwise;
\* has_active_subscription is true exactly when it is not None;
\* get_user_subscription_type is the record's tier then and BRONZE otherwise;
\* none of the three changes the store.
C8_Queries ==
    [][\A u \in Users :
         /\ (last'.op = "get_user_subscription" /\ last'.user = u) =>
               /\ last'.exc = NoExc
               /\ (last'.ret = None) = Absent(subscriptions, today, u)
               /\ (last'.ret # None => to_dict(last'.ret) = subscriptions[u])
               /\ subscriptions' = subscriptions
         /\ (last'.op = "has_active_subscription" /\ last'.user = u) =>
               /\ last'.exc = NoExc
               /\ last'.ret = ~Absent(subscriptions, today, u)
               /\ subscriptions' = subscriptions
         /\ (last'.op = "get_user_subscription_type" /\ last'.user = u) =>
               /\ last'.exc = NoExc
               /\ last'.ret = IF Absent(subscriptions, today, u) THEN "bronze"
                              ELSE subscriptions[u].subscription_type
               /\ subscriptions' = subscriptions
    ]_vars

\* a record went from active to absent for the queries as the day passed
C8_Witness ==
    /\ last.op = "get_user_subscription_type"
    /\ last.ret = "bronze"
    /\ HasTier(subscriptions, last.user, "gold")
    /\ today = subscriptions[last.user].end_date.day + 1

\* C9: is_active() is, for GOLD, end_date present and start_date <= today <=
\* end_date; for SILVER, remaining_credits > 0 whatever the dates; for BRONZE,
\* false.
C9_IsActiveRule ==
    (last.op = "get_user_subscription" /\ last.exc = NoExc /\ last.loaded # None)
    => LET sub == last.loaded
       IN  (last.ret # None) =
             CASE sub.subscription_type = "gold" ->
                    /\ sub.end_date # None
                    /\ sub.start_date.day <= today
                    /\ today <= sub.end_date.day
               [] sub.subscription_type = "silver" -> sub.remaining_credits > 0
               [] OTHER -> FALSE

\* the GOLD subscription is loaded on its last day, and is active
C9_Witness ==
    /\ last.op = "get_user_subscription"
    /\ last.loaded # None
    /\ last.loaded.subscription_type = "gold"
    /\ last.loaded.start_date.day < today
    /\ last.loaded.end_date.day = today
    /\ last.ret # None

\* C10: create_subscription with a subscription_type that is not a member of
\* the enum raises InvalidSubscriptionTypeError and leaves the store as it was.
C10_InvalidTierRejected ==
    [][(last'.op = "create_subscription" /\ last'.arg.kind = "str")
       => /\ last'.exc = "InvalidSubscriptionTypeError"
          /\ subscriptions' = subscriptions
    ]_vars

C10_Witness ==
    /\ last.op = "create_subscription"
    /\ last.arg = [kind |-> "str", value |-> "platinum"]
    /\ last.exc = "InvalidSubscriptionTypeError"
    /\ \E u \in Users : subscriptions[u] # NoRecord

\* C11: create_subscription(u, t) for a user who already has a stored record
\* (active, exhausted or expired) returns normally and leaves exactly one record
\* for u (by_user_id has one entry per user id), with tier t, remaining_credits 3
\* for SILVER and 0 otherwise, and the drink perk of the new Subscription 1 for
\* GOLD and 0 otherwise.
C11_CreateOverwrites ==
    [][\A u \in Users :
         (/\ last'.op = "create_subscription"
          /\ last'.user = u
          /\ IsSubscriptionType(last'.arg)
          /\ subscriptions[u] # NoRecord)
         => /\ last'.exc = NoExc
            /\ last'.ret # None
            /\ last'.ret.apply_gold_drink_benefits
                 = (IF last'.arg.value = "gold" THEN 1 ELSE 0)
            /\ subscriptions'[u] # NoRecord
            /\ subscriptions'[u].subscription_type = last'.arg.value
            /\ subscriptions'[u].remaining_credits
                 = (IF last'.arg.value = "silver" THEN 3 ELSE 0)
    ]_vars

\* C12: constructing a Subscription with a tier of the enum other than GOLD, a
\* start_date in an accepted format and no end_date succeeds, with
\* remaining_credits 3 for SILVER and 0 otherwise and the drink counter 0 (it is
\* 1 only for GOLD).
C12_AbsentEndDate ==
    (/\ last.op = "Subscription"
     /\ IsSubscriptionType(last.arg.subscription_type)
     /\ last.arg.subscription_type.value # "gold"
     /\ last.arg.start_date.fmt \in {"%Y-%m-%d", "%d/%m/%Y", "%d.%m.%Y"}
     /\ last.arg.end_date = None)
    => /\ last.exc = NoExc
       /\ last.ret.remaining_credits
            = (IF last.arg.subscription_type.value = "silver" THEN 3 ELSE 0)
       /\ last.ret.apply_gold_drink_benefits = 0

\* C13: for every Subscription s the constructor or the loader produces,
\* from_dict(to_dict(s)) succeeds and has the user_id, tier, start_date,
\* end_date and remaining_credits of s; loading a record whose
\* subscription_type is none of the three tier values raises and produces no
\* Subscription.
C13_RoundTrip ==
    /\ (/\ last.op \in {"Subscription", "_load_user_subscriptions"}
        /\ last.exc = NoExc
        /\ last.ret # None)
       => LET s == last.ret
              r == from_dict(to_dict(s))
          IN  /\ r.exc = NoExc
              /\ r.sub.user_id = s.user_id
              /\ r.sub.subscription_type = s.subscription_type
              /\ r.sub.start_date = s.start_date
              /\ r.sub.end_date = s.end_date
              /\ r.sub.remaining_credits = s.remaining_credits
    /\ (/\ last.op = "_load_user_subscriptions"
        /\ last.arg # NoRecord
        /\ last.arg.subscription_type \notin {"bronze", "silver", "gold"})
       => /\ last.exc # NoExc
          /\ last.ret = None

\* a SILVER Subscription with one credit left was loaded and survives the round
\* trip with that counter, next to a record of an unknown tier
C13_Witness ==
    /\ last.op = "_load_user_subscriptions"
    /\ last.exc = NoExc
    /\ last.ret # None
    /\ last.ret.subscription_type = "silver"
    /\ last.ret.remaining_credits = 1
    /\ from_dict(to_dict(last.ret)).sub.remaining_credits = 1
    /\ \E v \in Users : /\ subscriptions[v] # NoRecord
                         /\ subscriptions[v].subscription_type = "platinum"

\* C14: through every sequence of User constructions, deposits and withdrawals
\* the balance stays >= 0; deposit(a) with a > 0 returns and raises the balance
\* by exactly a; withdraw(a) with 0 < a <= balance returns and lowers it by
\* exactly a.
C14_WalletArithmetic ==
    [][\A u \in Users :
         /\ wallet[u] >= 0
         /\ wallet'[u] >= 0
         /\ (last'.op = "deposit" /\ last'.user = u /\ last'.arg > 0)
            => /\ last'.exc = NoExc
               /\ wallet'[u] = wallet[u] + last'.arg
         /\ (/\ last'.op = "withdraw" /\ last'.user = u
             /\ last'.arg > 0 /\ last'.arg <= wallet[u])
            => /\ last'.exc = NoExc
               /\ wallet'[u] = wallet[u] - last'.arg
    ]_vars

\* the whole balance was withdrawn
C14_Witness ==
    /\ last.op = "withdraw"
    /\ last.exc = NoExc
    /\ last.arg = 2000
    /\ wallet[last.user] = 0

\* C15: deposit(a) and withdraw(a) with a <= 0 raise InvalidAmountError,
\* withdraw(a) with a above the balance raises InsufficientBalanceError, and in
\* each of these cases no balance changes.
C15_WalletErrors ==
    [][\A u \in Users :
         /\ (/\ last'.op \in {"deposit", "withdraw"} /\ last'.user = u
             /\ last'.arg <= 0)
            => /\ last'.exc = "InvalidAmountError"
               /\ wallet' = wallet
         /\ (last'.op = "withdraw" /\ last'.user = u /\ last'.arg > wallet[u])
            => /\ last'.exc = "InsufficientBalanceError"
               /\ wallet' = wallet
    ]_vars

\* a withdrawal above a positive balance was refused
C15_Witness ==
    /\ last.op = "withdraw"
    /\ last.exc = "InsufficientBalanceError"
    /\ last.arg = 2000
    /\ wallet[last.user] = 1000

\* what load_users() returns in the current state
StoredUsers == load_users(users_file, users_default)

\* C16: register_user with a username that, stripped of surrounding whitespace,
\* is a key of username_index raises UsernameAlreadyExistsError, adds nothing to
\* by_id or username_index and does not write the users file.
C16_DuplicateRejected ==
    [][(/\ last'.op = "register_user"
        /\ StoredUsers.username_index[Strip(last'.arg.username)] # NoId)
       => /\ last'.exc = "UsernameAlreadyExistsError"
          /\ StoredUsers' = StoredUsers
          /\ users_file' = users_file
          /\ users_default' = users_default
    ]_vars

\* " ann" was refused because "ann" is registered in the users file
C16_Witness ==
    /\ last.op = "register_user"
    /\ last.arg.username = AnnPadded
    /\ last.exc = "UsernameAlreadyExistsError"
    /\ users_file = JsonFile(UsersOfAnn)

\* every username_index entry names a by_id record carrying that username
IndexConsistent(data) ==
    \A n \in UserNames :
        data.username_index[n] # NoId
        => /\ data.by_id[data.username_index[n]] # NoRecord
           /\ data.by_id[data.username_index[n]].username = n

\* C17: register_user with a username not yet indexed (and a username and
\* password the User accepts) returns the new user; afterwards
\* username_index[username] is the new user's id and by_id[that id] carries the
\* username; and if every index entry pointed to a record carrying its
\* username before the call, every entry does after it.
C17_RegisterIndexes ==
    [][(/\ last'.op = "register_user"
        /\ StoredUsers.username_index[Strip(last'.arg.username)] = NoId
        /\ Len(Strip(last'.arg.username)) >= 3
        /\ last'.arg.password \in {PwOld, PwNew})
       => LET name == Strip(last'.arg.username)
          IN  /\ last'.exc = NoExc
              /\ last'.ret.username = name
              /\ StoredUsers'.username_index[name] = last'.ret.id
              /\ StoredUsers'.by_id[last'.ret.id] # NoRecord
              /\ StoredUsers'.by_id[last'.ret.id].username = name
              /\ (IndexConsistent(StoredUsers) => IndexConsistent(StoredUsers'))
    ]_vars

\* C18 as stated: login_user raises UserNotFoundError when the username passed
\* is not a key of username_index, InvalidCredentialsError when the index names
\* a missing record or the password does not verify, and otherwise returns the
\* user whose id is username_index[username]; it never changes the storage.
C18_LoginByNameAsTyped ==
    [][last'.op = "login_user"
       => LET name == last'.arg.username
              user_id == StoredUsers.username_index[name]
              record == StoredUsers.by_id[user_id]
          IN  /\ users_file' = users_file
              /\ users_default' = users_default
              /\ IF user_id = NoId
                 THEN last'.exc = "UserNotFoundError"
                 ELSE IF \/ record = NoRecord
                         \/ Pbkdf2(last'.arg.password, record.salt)
                              # record.password_hash
                 THEN last'.exc = "InvalidCredentialsError"
                 ELSE /\ last'.exc = NoExc
                      /\ last'.ret.id = user_id
    ]_vars

\* C18, amended: the same with the username taken after strip(), as login_user
\* looks it up.
C18_LoginByStrippedName ==
    [][last'.op = "login_user"
       => LET name == Strip(last'.arg.username)
              user_id == StoredUsers.username_index[name]
              record == StoredUsers.by_id[user_id]
          IN  /\ users_file' = users_file
              /\ users_default' = users_default
              /\ IF user_id = NoId
                 THEN last'.exc = "UserNotFoundError"
                 ELSE IF \/ record = NoRecord
                         \/ Pbkdf2(last'.arg.password, record.salt)
                              # record.password_hash
                 THEN last'.exc = "InvalidCredentialsError"
                 ELSE /\ last'.exc = NoExc
                      /\ last'.ret.id = user_id
    ]_vars

\* " ann" logged in as the stored user ann
C18_Witness ==
    /\ last.op = "login_user"
    /\ last.arg.username = AnnPadded
    /\ last.exc = NoExc
    /\ last.ret.id = StoredUsers.username_index[Ann]
    /\ StoredUsers.username_index[Bob] # NoId

\* C19: change_username(user_id, new) raises UsernameAlreadyExistsError and
\* leaves the storage unchanged when new is indexed to another user; when new
\* is no key of the index (new a valid name without surrounding whitespace, the
\* user stored) it returns, the stored record carries new, the old name is no
\* longer indexed and new maps to user_id; when new is the user's current name
\* it returns the user and leaves the storage unchanged.
C19_ChangeUsername ==
    [][last'.op = "change_username"
       => LET user_id == last'.user
              new == last'.arg.new_username
              record == StoredUsers.by_id[user_id]
          IN  /\ (/\ StoredUsers.username_index[new] # NoId
                  /\ StoredUsers.username_index[new] # user_id)
                 => /\ last'.exc = "UsernameAlreadyExistsError"
                    /\ users_file' = users_file
                    /\ users_default' = users_default
              /\ (/\ record # NoRecord
                  /\ StoredUsers.username_index[new] = NoId
                  /\ Strip(new) = new
                  /\ Len(new) >= 3
                  /\ record.username # new)
                 => /\ last'.exc = NoExc
                    /\ StoredUsers'.by_id[user_id] # NoRecord
                    /\ StoredUsers'.by_id[user_id].username = new
                    /\ StoredUsers'.username_index[record.username] = NoId
                    /\ StoredUsers'.username_index[new] = user_id
              /\ (/\ record # NoRecord
                  /\ record.username = new
                  /\ StoredUsers.username_index[new] \in {NoId, user_id})
                 => /\ last'.exc = NoExc
                    /\ last'.ret.id = user_id
                    /\ users_file' = users_file
                    /\ users_default' = users_default
    ]_vars

\* C20: change_password for a stored user raises WrongPasswordError when
\* current does not verify, otherwise PasswordMismatchError when new differs
\* from confirm, in both cases leaving the stored salt and hash as they were;
\* otherwise (new a password the User accepts) it returns and the stored salt
\* and hash verify new.
C20_ChangePassword ==
    [][(last'.op = "change_password" /\ StoredUsers.by_id[last'.user] # NoRecord)
       => LET user_id == last'.user
              record == StoredUsers.by_id[user_id]
              after == StoredUsers'.by_id[user_id]
          IN  IF Pbkdf2(last'.arg.current_password, record.salt)
                   # record.password_hash
              THEN /\ last'.exc = "WrongPasswordError"
                   /\ after = record
              ELSE IF last'.arg.new_password # last'.arg.confirm_password
              THEN /\ last'.exc = "PasswordMismatchError"
                   /\ after = record
              ELSE last'.arg.new_password \in {PwOld, PwNew}
                   => /\ last'.exc = NoExc
                      /\ after # NoRecord
                      /\ Pbkdf2(last'.arg.new_password, after.salt)
                           = after.password_hash
    ]_vars

\* C21: a User has a role that defaults to USER; to_dict stores the role as its
\* string value and the wallet balance as a decimal string; from_dict of the
\* dict gives a user with the same id, username, role and wallet balance for
\* which check_password of the password is true.
C21_UserRoundTrip ==
    (last.op = "to_dict" /\ last.exc = NoExc) =>
        LET user == last.ret.user
            data == last.ret.data
            loaded == last.ret.loaded
        IN  /\ "role" \in DOMAIN user
            /\ "role" \in DOMAIN data
            /\ "role" \in DOMAIN loaded
            /\ data.wallet_balance.type = "str"
            /\ loaded.id = user.id
            /\ loaded.username = user.username
            /\ loaded.wallet_balance = user.wallet_balance
            /\ check_password(loaded, last.arg.password)

\* C22: withdraw_from_wallet(amount, user, description) with a positive amount
\* returns True and appends exactly one transaction for user.id to the
\* gateway's transaction list; InvalidAmountError is raised only for a
\* non-positive amount.
C22_GatewayWithdraw ==
    [][last'.op = "withdraw_from_wallet" =>
         /\ last'.arg.amount > 0 =>
               /\ last'.exc = NoExc
               /\ last'.ret = TRUE
               /\ Len(transactions') = Len(transactions) + 1
               /\ SubSeq(transactions', 1, Len(transactions)) = transactions
               /\ transactions'[Len(transactions')].user_id = last'.user
         /\ last'.exc = "InvalidAmountError" => last'.arg.amount <= 0]_vars

\* the stored record of u is an exhausted SILVER or an expired GOLD one
Terminal(file, day, u) ==
    \/ HasTier(file, u, "silver") /\ file[u].remaining_credits = 0
    \/ /\ HasTier(file, u, "gold")
       /\ file[u].end_date # None
       /\ day > file[u].end_date.day

\* C23: once a user's subscription is exhausted (SILVER with 0 credits) or
\* expired (GOLD with today past end_date), then as long as no
\* create_subscription is called for that user and the date does not move
\* backwards, it stays so: get_user_subscription returns absent,
\* apply_subscription_benefits returns the amount unchanged without touching
\* the wallet, and remaining_gold_drink_benefits returns false.
C23_TerminalStays ==
    [][\A u \in Users :
         (/\ Terminal(subscriptions, today, u)
          /\ ~(last'.op = "create_subscription" /\ last'.user = u)
          /\ today' >= today)
         => /\ Terminal(subscriptions', today', u)
            /\ (last'.op = "get_user_subscription" /\ last'.user = u) =>
                  last'.exc = NoExc /\ last'.ret = None
            /\ (last'.op = "apply_subscription_benefits" /\ last'.user = u) =>
                  /\ last'.exc = NoExc
                  /\ last'.ret = last'.arg
                  /\ wallet' = wallet
            /\ (last'.op = "remaining_gold_drink_benefits" /\ last'.user = u) =>
                  last'.exc = NoExc /\ last'.ret = FALSE
    ]_vars

\* an exhausted SILVER subscription was offered a positive amount, and an
\* expired GOLD one is in the store
C23_Witness ==
    /\ last.op = "apply_subscription_benefits"
    /\ last.arg > 0
    /\ last.loaded # None
    /\ last.loaded.subscription_type = "silver"
    /\ last.loaded.remaining_credits = 0
    /\ Terminal(subscriptions, today, last.user)
    /\ \E v \in Users :
          HasTier(subscriptions, v, "gold") /\ Terminal(subscriptions, today, v)

\* the wallet balance of the User _load_user_by_id builds from the users store
ReloadedBalance(file, default, u) ==
    load_user_by_id(file, default, u).user.wallet_balance.mils

\* C28: apply_subscription_benefits changes only the wallet of the in-memory
\* User it is given: it never writes the users store (by_id, username_index),
\* so a user reloaded from storage after a cashback has the balance the store
\* held before it, which is the pre-cashback balance of a user that came from
\* the store.
C28_UsersStoreUntouched ==
    [][\A u \in Users :
         (last'.op = "apply_subscription_benefits" /\ last'.user = u)
         => /\ users_file' = users_file
            /\ users_default' = users_default
            /\ load_user_by_id(users_file', users_default', u).exc = NoExc
            /\ ReloadedBalance(users_file', users_default', u)
                  = ReloadedBalance(users_file, users_default, u)
            /\ wallet'[u] # wallet[u] =>
                  /\ ReloadedBalance(users_file', users_default', u) < wallet'[u]
                  /\ wallet[u] = ReloadedBalance(users_file, users_default, u) =>
                        ReloadedBalance(users_file', users_default', u) = wallet[u]
    ]_vars

\* a cashback was paid into the wallet of a user whose stored balance is 0
C28_Witness ==
    /\ last.op = "apply_subscription_benefits"
    /\ last.exc = NoExc
    /\ wallet[last.user] = Cashback(last.arg)
    /\ wallet[last.user] > 0
    /\ ReloadedBalance(users_file, users_default, last.user) = 0

\* C27: with an active SILVER subscription holding credits,
\* apply_subscription_benefits(user, amount) for amount <= 0 fails with
\* InvalidAmountError, raised by the wallet deposit; remaining_credits is not
\* decremented, nothing is persisted and the wallet balance is unchanged.
C27_SilverNonPositiveAmount ==
    [][\A u \in Users :
         (/\ last'.op = "apply_subscription_benefits"
          /\ last'.user = u
          /\ last'.arg <= 0
          /\ HasTier(subscriptions, u, "silver")
          /\ subscriptions[u].remaining_credits > 0)
         => /\ last'.exc = "InvalidAmountError"
            /\ deposit(wallet[u], Cashback(last'.arg)).exc = "InvalidAmountError"
            /\ subscriptions' = subscriptions
            /\ wallet' = wallet
    ]_vars

\* a negative amount was refused after a cashback had been paid: the credit
\* and the balance the earlier call left are still there
C27_Witness ==
    /\ last.op = "apply_subscription_benefits"
    /\ last.arg < 0
    /\ last.exc = "InvalidAmountError"
    /\ HasTier(subscriptions, last.user, "silver")
    /\ subscriptions[last.user].remaining_credits = InitialCredits - 1
    /\ wallet[last.user] > 0

\* C29: every engine operation invoked for user A (create_subscription,
\* apply_subscription_benefits, remaining_gold_drink_benefits) leaves the
\* persisted subscription record of every other user B unchanged.
C29_OtherUsersUntouched ==
    [][\A a \in Users, b \in Users :
         (/\ a # b
          /\ last'.user = a
          /\ last'.op \in {"create_subscription", "apply_subscription_benefits",
                           "remaining_gold_drink_benefits"})
         => subscriptions'[b] = subscriptions[b]
    ]_vars

\* an operation rewrote the file for its user while another user has a record
C29_Witness ==
    /\ last.op = "apply_subscription_benefits"
    /\ last.loaded # None
    /\ HasTier(subscriptions, last.user, "silver")
    /\ subscriptions[last.user].remaining_credits
          = last.loaded.remaining_credits - 1
    /\ \E b \in Users : b # last.user /\ subscriptions[b] # NoRecord

\* C24: two apply_subscription_benefits calls for the same SILVER user that
\* interleave at the granularity of load, mutate, save lose an update: each
\* call deposits its cashback, and each save writes the count its own call
\* loaded less 1 over whatever the file holds then (last writer wins), so that
\* a state is reachable in which more cashbacks were deposited than credits
\* taken off the persisted count, and more than 3 cashbacks per creation.
C24_LastWriterWins ==
    [][\A c \in Callers :
         /\ (calls[c] = Idle /\ calls'[c].pc = "loaded") =>
               /\ calls'[c].sub.remaining_credits
                     = subscriptions[calls'[c].user].remaining_credits
               /\ wallet' = wallet
               /\ subscriptions' = subscriptions
         /\ (calls[c].pc = "loaded" /\ calls'[c].pc = "mutated") =>
               /\ wallet'[calls[c].user]
                     = wallet[calls[c].user] + Cashback(calls[c].amount)
               /\ calls'[c].sub.remaining_credits
                     = calls[c].sub.remaining_credits - 1
               /\ subscriptions' = subscriptions
         /\ (calls[c].pc = "mutated" /\ calls'[c] = Idle) =>
               /\ last'.exc = NoExc
               /\ subscriptions'[calls[c].user].remaining_credits
                     = calls[c].sub.remaining_credits
               /\ wallet' = wallet
    ]_vars

\* both calls are over: four cashbacks were deposited into the wallet of a
\* user whose persisted count is 1 below the 3 it was created with
C24_Witness ==
    \E u \in Users :
        /\ calls = NoCalls
        /\ HasSilver(subscriptions, u)
        /\ subscriptions[u].remaining_credits = InitialCredits - 1
        /\ wallet[u] = (InitialCredits + 1) * Cashback(1000)

\* two calls deposited a cashback each and the persisted count dropped by 1
C24_TwoDepositsOneCredit ==
    \E u \in Users :
        /\ calls = NoCalls
        /\ HasSilver(subscriptions, u)
        /\ subscriptions[u].remaining_credits = InitialCredits - 1
        /\ wallet[u] = 2 * Cashback(1000)

C25_SaveFailureNoDecrement ==
    [][\A c \in Callers :
         (calls[c].pc = "mutated" /\ last'.exc # NoExc /\ calls'[c] = Idle)
         => /\ last'.exc = "CinemaTicketError"
            /\ last'.op = "apply_subscription_benefits"
            /\ \/ subscriptions' = subscriptions
               \/ subscriptions' = EmptySubscriptions
            /\ wallet' = wallet
            /\ wallet[calls[c].user] >= Cashback(calls[c].amount)
    ]_vars

\* C26: after any sequence of register_user and change_username calls,
\* including names with leading or trailing whitespace, no two records in by_id
\* carry the same username, and every by_id record's username is a key of
\* username_index that maps to that record's id.
C26_UsernamesUnique ==
    LET by_id == StoredUsers.by_id
        username_index == StoredUsers.username_index
    IN  /\ \A i \in DOMAIN by_id, j \in DOMAIN by_id :
              (i # j /\ by_id[i] # NoRecord /\ by_id[j] # NoRecord)
              => by_id[i].username # by_id[j].username
        /\ \A i \in DOMAIN by_id :
              by_id[i] # NoRecord => username_index[by_id[i].username] = i

\* a change_password call for a stored, indexed user whose current password
\* verifies and whose new password is confirmed and one the User accepts
RightfulChange(data, call) ==
    /\ call.op = "change_password"
    /\ data.by_id[call.user] # NoRecord
    /\ data.username_index[data.by_id[call.user].username] = call.user
    /\ Pbkdf2(call.arg.current_password, data.by_id[call.user].salt)
          = data.by_id[call.user].password_hash
    /\ call.arg.new_password = call.arg.confirm_password
    /\ call.arg.new_password \in {PwOld, PwNew}

\* C30: change_password(user_id, current, new, new) with new different from
\* current succeeds, and then login_user with the user's username and the old
\* password fails with InvalidCredentialsError and with the new password
\* returns that user; when new equals current the stored salt and hash are
\* left unchanged and nothing is saved.
C30_PasswordChangeThenLogin ==
    [][RightfulChange(StoredUsers, last')
       => LET user_id == last'.user
              record == StoredUsers.by_id[user_id]
              old == login_user(users_file', users_default', record.username,
                                last'.arg.current_password)
              new == login_user(users_file', users_default', record.username,
                                last'.arg.new_password)
          IN  /\ last'.exc = NoExc
              /\ IF last'.arg.new_password = last'.arg.current_password
                 THEN /\ StoredUsers'.by_id[user_id] = record
                      /\ users_file' = users_file
                      /\ users_default' = users_default
                 ELSE /\ old.exc = "InvalidCredentialsError"
                      /\ new.exc = NoExc
                      /\ new.ret.id = user_id
    ]_vars

\* the part of C30 about new equal to current
C30_SamePasswordSavesNothing ==
    [][(/\ RightfulChange(StoredUsers, last')
        /\ last'.arg.new_password = last'.arg.current_password)
       => /\ last'.exc = NoExc
          /\ StoredUsers'.by_id[last'.user] = StoredUsers.by_id[last'.user]
          /\ users_file' = users_file
          /\ users_default' = users_default
    ]_vars
====
